---- MODULE Spec2Model ----
(***************************************************************************)
(* Admission control of the GABI chat endpoint: the in-memory rate limit   *)
(* store (lib/rateLimitStore.ts, RateLimitStoreManager), the facade        *)
(* (middleware/rateLimiter.ts, RateLimiter) and the chat route that calls  *)
(* it (app/api/chat/route.ts, POST).                                       *)
(*                                                                         *)
(* Time is Date.now() in milliseconds, counted from the construction of    *)
(* the store singleton.  A Map is a function whose DOMAIN is the set of    *)
(* keys it holds.  A message text is represented by its length, which is   *)
(* all the limiter reads of it.                                            *)
(***************************************************************************)
EXTENDS Integers, Sequences, FiniteSets, Bags, TLC

\* ------------------------------------------------------------------------
\* Configuration set by the RateLimitStoreManager constructor
\* ------------------------------------------------------------------------
RequestLimit == 10
RequestWindowMs == 60 * 60 * 1000
TokenLimit == 5000
TokenWindowMs == 24 * 60 * 60 * 1000
SessionLimit == 3
RequestCleanupMs == 10 * 60 * 1000
TokenCleanupMs == 60 * 60 * 1000

\* The configuration the declarations of RateLimitConfig add: the burst cap
\* on requests (3 requests a second) and the keys exempt from the session cap
BurstLimit == 3
BurstWindowMs == 1000

\* ------------------------------------------------------------------------
\* Bounds of the model and the inputs drawn by the actions
\* ------------------------------------------------------------------------
\* number of times the clock advances in one behaviour
MaxAdvances == 3
\* calls of checkRequestLimit made on one key in one window beyond the limit
MaxOver == 2

\* requests the concurrent clients of the chat route send in one behaviour
MaxSent == 6
\* requests of the chat route that are in flight at the same time
MaxInflight == 3
\* number of times the clock advances while the chat route is observed
MaxRouteAdvances == 1
\* requests the sequential client of the chat route sends in one behaviour
MaxSeq == 12

\* calls of checkRequestLimit made on one key while all the store operations
\* are observed together
MaxStoreCalls == 2

\* client keys (resolved ip addresses)
Keys == {"A", "B"}
\* sessions.exemptIPs: key A is 127.0.0.1, the address getClientIP falls back to
ExemptKeys == {"A"}
\* session ids a caller can supply in the x-session-id header
SessionIds == 1 .. 4
\* the request carries no x-session-id header
NoHeader == 0
\* lengths of the message texts a caller sends
MsgLens == {0, 4000, 8000, 20001}
\* session ids and message lengths the clients of the chat route send
HeaderIds == {1}
RouteLens == {0, 8000, 20001}
\* message lengths of the sequential client: an empty text and a short one
SeqLens == {0, 15}
\* session ids and message lengths used while all the store operations are
\* observed together
StoreSids == {1, 2}
StoreLens == {8000}
\* amounts by which Date.now() moves between two operations
ClockSteps == {RequestWindowMs, TokenWindowMs}
\* the same while the request dimension is observed: the period of its
\* sweep, which is a part of a request window, or a whole request window
ReqClockSteps == {RequestCleanupMs, RequestWindowMs}
\* the same while the chat route is observed: a request window, or a second
\* and a half
RouteClockSteps == {RequestWindowMs, 1500}

VARIABLES
    now,          \* Date.now()
    clockTicks,   \* how many times the clock advanced
    requests,     \* store.requests : Map<ip, {count, resetTime}>
    tokens,       \* store.tokens   : Map<ip, {dailyUsage, resetTime}>
    sessions,     \* store.sessions : Map<ip, {activeCount, sessionIds}>
    ret,          \* what the store operation just called directly returned
    refWin,       \* per key: calls of checkRequestLimit in the current window
    sent,         \* requests the chat route has received
    inflight,     \* requests admitted by checkLimits whose handler is running
    out,          \* the response the chat route just returned, if it did
    admittedSids, \* per key: session ids checkLimits has admitted
    lazyResets,   \* dimensions in which a direct check replaced an elapsed window
    unswept,      \* the window maps and the last result, had no sweep ever run
    sessTrail,    \* per key: how far the key is through reject, release, admit
    cleanupIntervals, \* this.cleanupIntervals: the timer handles the store holds
    activeTimers, \* the interval timers of the runtime that have not been cleared
    retry         \* per window dimension and key: the resetTime of the rejection the
                  \* key last got, if its last direct check was rejected

routeVars == <<sent, inflight, out, admittedSids>>
pendingVars == <<sent, inflight, admittedSids>>
vars == <<now, clockTicks, requests, tokens, sessions, ret, refWin,
          sent, inflight, out, admittedSids, lazyResets, unswept, sessTrail,
          cleanupIntervals, activeTimers, retry>>
timerVars == <<cleanupIntervals, activeTimers>>

\* ------------------------------------------------------------------------
\* Helpers
\* ------------------------------------------------------------------------
MapSet(m, k, v) == [x \in (DOMAIN m) \cup {k} |-> IF x = k THEN v ELSE m[x]]

MapDelete(m, k) == [x \in (DOMAIN m) \ {k} |-> m[x]]

MapHas(m, k) == k \in DOMAIN m

EmptyMap == [x \in {} |-> 0]

Max0(x) == IF x > 0 THEN x ELSE 0

\* Math.ceil(text.length / 4)
estimateTokens(len) == (len + 3) \div 4

TokenEstimates == {estimateTokens(n) : n \in MsgLens}

StoreEstimates == {estimateTokens(n) : n \in StoreLens}

\* ------------------------------------------------------------------------
\* RateLimitStoreManager: the store operations as functions of the maps
\* ------------------------------------------------------------------------
\* cleanExpiredEntries with the expiry test inverted: it deletes the entries
\* whose window is still open
cleanExpiredEntries_Inverted(map, t) ==
    [k \in {x \in DOMAIN map : t >= map[x].resetTime} |-> map[k]]

cleanExpiredEntries(map, t) ==
    [k \in {x \in DOMAIN map : ~(t >= map[x].resetTime)} |-> map[k]]

\* checkRequestLimit with the limit test written count > limit
checkRequestLimit_NoCap(reqs, ip, t) ==
    IF ~MapHas(reqs, ip) \/ t >= reqs[ip].resetTime
    THEN [requests |-> MapSet(reqs, ip, [count |-> 1, resetTime |-> t + RequestWindowMs]),
          allowed |-> TRUE,
          remaining |-> RequestLimit - 1,
          resetTime |-> t + RequestWindowMs]
    ELSE IF reqs[ip].count > RequestLimit
    THEN [requests |-> reqs,
          allowed |-> FALSE,
          remaining |-> 0,
          resetTime |-> reqs[ip].resetTime]
    ELSE [requests |-> [reqs EXCEPT ![ip].count = @ + 1],
          allowed |-> TRUE,
          remaining |-> RequestLimit - (reqs[ip].count + 1),
          resetTime |-> reqs[ip].resetTime]

\* checkRequestLimit with remaining read before the increment
checkRequestLimit_StaleRemaining(reqs, ip, t) ==
    IF ~MapHas(reqs, ip) \/ t >= reqs[ip].resetTime
    THEN [requests |-> MapSet(reqs, ip, [count |-> 1, resetTime |-> t + RequestWindowMs]),
          allowed |-> TRUE,
          remaining |-> RequestLimit - 1,
          resetTime |-> t + RequestWindowMs]
    ELSE IF reqs[ip].count >= RequestLimit
    THEN [requests |-> reqs,
          allowed |-> FALSE,
          remaining |-> 0,
          resetTime |-> reqs[ip].resetTime]
    ELSE [requests |-> [reqs EXCEPT ![ip].count = @ + 1],
          allowed |-> TRUE,
          remaining |-> RequestLimit - reqs[ip].count,
          resetTime |-> reqs[ip].resetTime]

\* checkRequestLimit whose admitted call restarts the window from the call
checkRequestLimit_SlidesWindow(reqs, ip, t) ==
    IF ~MapHas(reqs, ip) \/ t >= reqs[ip].resetTime
    THEN [requests |-> MapSet(reqs, ip, [count |-> 1, resetTime |-> t + RequestWindowMs]),
          allowed |-> TRUE,
          remaining |-> RequestLimit - 1,
          resetTime |-> t + RequestWindowMs]
    ELSE IF reqs[ip].count >= RequestLimit
    THEN [requests |-> reqs,
          allowed |-> FALSE,
          remaining |-> 0,
          resetTime |-> reqs[ip].resetTime]
    ELSE [requests |-> [reqs EXCEPT ![ip] = [count |-> @.count + 1,
                                             resetTime |-> t + RequestWindowMs]],
          allowed |-> TRUE,
          remaining |-> RequestLimit - (reqs[ip].count + 1),
          resetTime |-> t + RequestWindowMs]

\* checkRequestLimit that opens a new window only after resetTime has passed
checkRequestLimit_LateReset(reqs, ip, t) ==
    IF ~MapHas(reqs, ip) \/ t > reqs[ip].resetTime
    THEN [requests |-> MapSet(reqs, ip, [count |-> 1, resetTime |-> t + RequestWindowMs]),
          allowed |-> TRUE,
          remaining |-> RequestLimit - 1,
          resetTime |-> t + RequestWindowMs]
    ELSE IF reqs[ip].count >= RequestLimit
    THEN [requests |-> reqs,
          allowed |-> FALSE,
          remaining |-> 0,
          resetTime |-> reqs[ip].resetTime]
    ELSE [requests |-> [reqs EXCEPT ![ip].count = @ + 1],
          allowed |-> TRUE,
          remaining |-> RequestLimit - (reqs[ip].count + 1),
          resetTime |-> reqs[ip].resetTime]

checkRequestLimit(reqs, ip, t) ==
    IF ~MapHas(reqs, ip) \/ t >= reqs[ip].resetTime
    THEN [requests |-> MapSet(reqs, ip, [count |-> 1, resetTime |-> t + RequestWindowMs]),
          allowed |-> TRUE,
          remaining |-> RequestLimit - 1,
          resetTime |-> t + RequestWindowMs]
    ELSE IF reqs[ip].count >= RequestLimit
    THEN [requests |-> reqs,
          allowed |-> FALSE,
          remaining |-> 0,
          resetTime |-> reqs[ip].resetTime]
    ELSE [requests |-> [reqs EXCEPT ![ip].count = @ + 1],
          allowed |-> TRUE,
          remaining |-> RequestLimit - (reqs[ip].count + 1),
          resetTime |-> reqs[ip].resetTime]

\* checkTokenLimit whose new window carries the usage of the elapsed one over
checkTokenLimit_CarryOver(toks, ip, estimatedTokens, t) ==
    IF ~MapHas(toks, ip) \/ t >= toks[ip].resetTime
    THEN LET newUsage == IF MapHas(toks, ip)
                         THEN toks[ip].dailyUsage + estimatedTokens
                         ELSE estimatedTokens
         IN  [tokens |-> MapSet(toks, ip, [dailyUsage |-> newUsage,
                                           resetTime |-> t + TokenWindowMs]),
              allowed |-> newUsage <= TokenLimit,
              remaining |-> Max0(TokenLimit - newUsage),
              resetTime |-> t + TokenWindowMs]
    ELSE IF toks[ip].dailyUsage + estimatedTokens > TokenLimit
    THEN [tokens |-> toks,
          allowed |-> FALSE,
          remaining |-> Max0(TokenLimit - toks[ip].dailyUsage),
          resetTime |-> toks[ip].resetTime]
    ELSE [tokens |-> [toks EXCEPT ![ip].dailyUsage = @ + estimatedTokens],
          allowed |-> TRUE,
          remaining |-> TokenLimit - (toks[ip].dailyUsage + estimatedTokens),
          resetTime |-> toks[ip].resetTime]

\* checkTokenLimit that charges a key with the usage of the other keys too
checkTokenLimit_SharedBudget(toks, ip, estimatedTokens, t) ==
    LET others == {toks[x].dailyUsage : x \in (DOMAIN toks) \ {ip}}
        shared == IF others = {} THEN 0
                  ELSE CHOOSE u \in others : \A v \in others : v <= u
    IN  IF ~MapHas(toks, ip) \/ t >= toks[ip].resetTime
        THEN [tokens |-> MapSet(toks, ip, [dailyUsage |-> estimatedTokens,
                                           resetTime |-> t + TokenWindowMs]),
              allowed |-> shared + estimatedTokens <= TokenLimit,
              remaining |-> Max0(TokenLimit - (shared + estimatedTokens)),
              resetTime |-> t + TokenWindowMs]
        ELSE IF shared + toks[ip].dailyUsage + estimatedTokens > TokenLimit
        THEN [tokens |-> toks,
              allowed |-> FALSE,
              remaining |-> Max0(TokenLimit - (shared + toks[ip].dailyUsage)),
              resetTime |-> toks[ip].resetTime]
        ELSE [tokens |-> [toks EXCEPT ![ip].dailyUsage = @ + estimatedTokens],
              allowed |-> TRUE,
              remaining |-> TokenLimit - (shared + toks[ip].dailyUsage + estimatedTokens),
              resetTime |-> toks[ip].resetTime]

\* checkTokenLimit that reports limit - usage without Math.max(0, ...)
checkTokenLimit_NoClamp(toks, ip, estimatedTokens, t) ==
    IF ~MapHas(toks, ip) \/ t >= toks[ip].resetTime
    THEN [tokens |-> MapSet(toks, ip, [dailyUsage |-> estimatedTokens,
                                       resetTime |-> t + TokenWindowMs]),
          allowed |-> estimatedTokens <= TokenLimit,
          remaining |-> TokenLimit - estimatedTokens,
          resetTime |-> t + TokenWindowMs]
    ELSE IF toks[ip].dailyUsage + estimatedTokens > TokenLimit
    THEN [tokens |-> toks,
          allowed |-> FALSE,
          remaining |-> TokenLimit - toks[ip].dailyUsage,
          resetTime |-> toks[ip].resetTime]
    ELSE [tokens |-> [toks EXCEPT ![ip].dailyUsage = @ + estimatedTokens],
          allowed |-> TRUE,
          remaining |-> TokenLimit - (toks[ip].dailyUsage + estimatedTokens),
          resetTime |-> toks[ip].resetTime]

checkTokenLimit(toks, ip, estimatedTokens, t) ==
    IF ~MapHas(toks, ip) \/ t >= toks[ip].resetTime
    THEN [tokens |-> MapSet(toks, ip, [dailyUsage |-> estimatedTokens,
                                       resetTime |-> t + TokenWindowMs]),
          allowed |-> estimatedTokens <= TokenLimit,
          remaining |-> Max0(TokenLimit - estimatedTokens),
          resetTime |-> t + TokenWindowMs]
    ELSE IF toks[ip].dailyUsage + estimatedTokens > TokenLimit
    THEN [tokens |-> toks,
          allowed |-> FALSE,
          remaining |-> Max0(TokenLimit - toks[ip].dailyUsage),
          resetTime |-> toks[ip].resetTime]
    ELSE [tokens |-> [toks EXCEPT ![ip].dailyUsage = @ + estimatedTokens],
          allowed |-> TRUE,
          remaining |-> TokenLimit - (toks[ip].dailyUsage + estimatedTokens),
          resetTime |-> toks[ip].resetTime]

\* checkSessionLimit with the cap test written activeCount > limit
checkSessionLimit_OffByOne(sess, ip, sessionId) ==
    IF ~MapHas(sess, ip)
    THEN [sessions |-> MapSet(sess, ip, [activeCount |-> 1, sessionIds |-> {sessionId}]),
          allowed |-> TRUE,
          remaining |-> SessionLimit - 1]
    ELSE IF sessionId \in sess[ip].sessionIds
    THEN [sessions |-> sess,
          allowed |-> TRUE,
          remaining |-> SessionLimit - sess[ip].activeCount]
    ELSE IF sess[ip].activeCount > SessionLimit
    THEN [sessions |-> sess,
          allowed |-> FALSE,
          remaining |-> 0]
    ELSE [sessions |-> [sess EXCEPT ![ip] = [activeCount |-> @.activeCount + 1,
                                             sessionIds |-> @.sessionIds \cup {sessionId}]],
          allowed |-> TRUE,
          remaining |-> SessionLimit - (sess[ip].activeCount + 1)]

\* checkSessionLimit that tests the cap before it looks the id up
checkSessionLimit_CapBeforeLookup(sess, ip, sessionId) ==
    IF ~MapHas(sess, ip)
    THEN [sessions |-> MapSet(sess, ip, [activeCount |-> 1, sessionIds |-> {sessionId}]),
          allowed |-> TRUE,
          remaining |-> SessionLimit - 1]
    ELSE IF sess[ip].activeCount >= SessionLimit
    THEN [sessions |-> sess,
          allowed |-> FALSE,
          remaining |-> 0]
    ELSE IF sessionId \in sess[ip].sessionIds
    THEN [sessions |-> sess,
          allowed |-> TRUE,
          remaining |-> SessionLimit - sess[ip].activeCount]
    ELSE [sessions |-> [sess EXCEPT ![ip] = [activeCount |-> @.activeCount + 1,
                                             sessionIds |-> @.sessionIds \cup {sessionId}]],
          allowed |-> TRUE,
          remaining |-> SessionLimit - (sess[ip].activeCount + 1)]

checkSessionLimit(sess, ip, sessionId) ==
    IF ~MapHas(sess, ip)
    THEN [sessions |-> MapSet(sess, ip, [activeCount |-> 1, sessionIds |-> {sessionId}]),
          allowed |-> TRUE,
          remaining |-> SessionLimit - 1]
    ELSE IF sessionId \in sess[ip].sessionIds
    THEN [sessions |-> sess,
          allowed |-> TRUE,
          remaining |-> SessionLimit - sess[ip].activeCount]
    ELSE IF sess[ip].activeCount >= SessionLimit
    THEN [sessions |-> sess,
          allowed |-> FALSE,
          remaining |-> 0]
    ELSE [sessions |-> [sess EXCEPT ![ip] = [activeCount |-> @.activeCount + 1,
                                             sessionIds |-> @.sessionIds \cup {sessionId}]],
          allowed |-> TRUE,
          remaining |-> SessionLimit - (sess[ip].activeCount + 1)]

\* removeSession that keeps the entry of a key whose last id was removed
removeSession_KeepsEmptyEntry(sess, ip, sessionId) ==
    IF MapHas(sess, ip) /\ sessionId \in sess[ip].sessionIds
    THEN LET ids == sess[ip].sessionIds \ {sessionId}
         IN  [sess EXCEPT ![ip] = [activeCount |-> Cardinality(ids), sessionIds |-> ids]]
    ELSE sess

\* removeSession that deletes the id and leaves activeCount as it was
removeSession_KeepsCount(sess, ip, sessionId) ==
    IF MapHas(sess, ip) /\ sessionId \in sess[ip].sessionIds
    THEN LET ids == sess[ip].sessionIds \ {sessionId}
         IN  IF Cardinality(ids) = 0
             THEN MapDelete(sess, ip)
             ELSE [sess EXCEPT ![ip] = [activeCount |-> @.activeCount, sessionIds |-> ids]]
    ELSE sess

\* removeSession that deletes the entry of the key with all its ids
removeSession_DropsKey(sess, ip, sessionId) ==
    IF MapHas(sess, ip) /\ sessionId \in sess[ip].sessionIds
    THEN MapDelete(sess, ip)
    ELSE sess

removeSession(sess, ip, sessionId) ==
    IF MapHas(sess, ip) /\ sessionId \in sess[ip].sessionIds
    THEN LET ids == sess[ip].sessionIds \ {sessionId}
         IN  IF Cardinality(ids) = 0
             THEN MapDelete(sess, ip)
             ELSE [sess EXCEPT ![ip] = [activeCount |-> Cardinality(ids), sessionIds |-> ids]]
    ELSE sess

\* ------------------------------------------------------------------------
\* The reference fixed-window call counter of a key (bookkeeping only)
\* ------------------------------------------------------------------------
RefCall(ref, ip, t) ==
    IF t >= ref[ip].end
    THEN [ref EXCEPT ![ip] = [n |-> 1, adm |-> 0, end |-> t + RequestWindowMs]]
    ELSE [ref EXCEPT ![ip].n = @ + 1]

\* the entry of ip is stored and its window has elapsed at time t
Stale(map, ip, t) == MapHas(map, ip) /\ t >= map[ip].resetTime

\* dimension dim, if the step from map to map2 replaced the elapsed window
\* of ip by one that is open at time t
Replaced(dim, map, map2, ip, t) ==
    {d \in {dim} : Stale(map, ip, t) /\ ~Stale(map2, ip, t)}

\* the session ids the store holds for ip
HeldIds(sess, ip) == IF MapHas(sess, ip) THEN sess[ip].sessionIds ELSE {}

\* the stage of ip in the sequence: a new id rejected at the cap (1), then
\* one held id released (2), then a new id admitted (3); 0 outside of it
TrailCheck(trail, ip, held, allowed) ==
    IF ~allowed THEN [trail EXCEPT ![ip] = 1]
    ELSE IF held THEN trail
    ELSE IF trail[ip] = 2 THEN [trail EXCEPT ![ip] = 3]
    ELSE [trail EXCEPT ![ip] = 0]

TrailRemove(trail, ip, held) ==
    IF ~held THEN trail
    ELSE IF trail[ip] = 1 THEN [trail EXCEPT ![ip] = 2]
    ELSE [trail EXCEPT ![ip] = 0]

\* the same direct checks applied to window maps that no sweep touches;
\* overSwept records that the check found the entry deleted by a sweep
NoSweepRun == [requests |-> EmptyMap, tokens |-> EmptyMap, overSwept |-> FALSE,
               allowed |-> TRUE, remaining |-> 0, resetTime |-> 0]

UnsweptRequest(u, reqs, ip, t) ==
    LET r == checkRequestLimit(u.requests, ip, t)
    IN  [u EXCEPT !.requests = r.requests,
                  !.overSwept = MapHas(u.requests, ip) /\ ~MapHas(reqs, ip),
                  !.allowed = r.allowed, !.remaining = r.remaining,
                  !.resetTime = r.resetTime]

UnsweptToken(u, toks, ip, estimatedTokens, t) ==
    LET r == checkTokenLimit(u.tokens, ip, estimatedTokens, t)
    IN  [u EXCEPT !.tokens = r.tokens,
                  !.overSwept = MapHas(u.tokens, ip) /\ ~MapHas(toks, ip),
                  !.allowed = r.allowed, !.remaining = r.remaining,
                  !.resetTime = r.resetTime]

\* no key has a rejection pending (0)
NoRetry == [requests |-> [k \in Keys |-> 0], tokens |-> [k \in Keys |-> 0]]

RetryAfterCheck(rt, dim, ip, allowed, resetTime) ==
    [rt EXCEPT ![dim][ip] = IF allowed THEN 0 ELSE resetTime]

\* the key comes back at or after the resetTime its last rejection gave it
CameBack(rt, dim, ip, t) == rt[dim][ip] > 0 /\ t >= rt[dim][ip]

\* a further call of checkRequestLimit on ip stays within the model's bound
RefRoom(ip) == now >= refWin[ip].end \/ refWin[ip].n < RequestLimit + MaxOver

NoRet == [op |-> "none", key |-> "-", est |-> 0, sid |-> NoHeader, held |-> FALSE,
          cameBack |-> FALSE, allowed |-> TRUE, remaining |-> 0, resetTime |-> 0]

\* ------------------------------------------------------------------------
\* RateLimiter: the facade over the store
\* ------------------------------------------------------------------------
\* Math.ceil(a / b) for b > 0
Ceil(a, b) == 0 - ((0 - a) \div b)

\* crypto.randomUUID(): an id that no header carries and that the key does
\* not hold; ids the store never kept are interchangeable, so the generated
\* id is numbered after the generated ids the key holds
randomUUID(sess, ip) ==
    IF MapHas(sess, ip)
    THEN 0 - (1 + Cardinality({x \in sess[ip].sessionIds : x < 0}))
    ELSE 0 - 1

\* the ids randomUUID can return for a key that holds at most cap-many ids
GeneratedIds == {0 - i : i \in 1 .. SessionLimit}

\* request.headers.get('x-session-id') || crypto.randomUUID()
getSessionId(hdr, sess, ip) == IF hdr = NoHeader THEN randomUUID(sess, ip) ELSE hdr

NoOut == [ip |-> "-", status |-> 0, type |-> "-", limit |-> 0,
          remaining |-> 0, resetTime |-> 0, retryAfter |-> "absent",
          requestsRemaining |-> "absent", requestsReset |-> "absent",
          tokensRemaining |-> "absent", tokensReset |-> "absent"]

\* createRateLimitResponse with Retry-After rounded down
createRateLimitResponse_RoundsDown(result, t) ==
    [NoOut EXCEPT !.status = 429, !.type = result.type, !.limit = result.limit,
                  !.remaining = result.remaining, !.resetTime = result.resetTime,
                  !.retryAfter = IF ~result.allowed
                                 THEN (result.resetTime - t) \div 1000
                                 ELSE "absent"]

\* createRateLimitResponse with the headers of createRateLimitHeaders:
\* the 429 response of a rejected request
createRateLimitResponse(result, t) ==
    [NoOut EXCEPT !.status = 429, !.type = result.type, !.limit = result.limit,
                  !.remaining = result.remaining, !.resetTime = result.resetTime,
                  !.retryAfter = IF ~result.allowed
                                 THEN Ceil(result.resetTime - t, 1000)
                                 ELSE "absent"]

\* checkLimits that goes on to the handler when the session check rejects
checkLimits_IgnoreSession(reqs, toks, sess, ip, sessionId, len, t) ==
    LET estimatedTokens == estimateTokens(len)
        requestCheck == checkRequestLimit(reqs, ip, t)
        tokenCheck == checkTokenLimit(toks, ip, estimatedTokens, t)
        sessionCheck == checkSessionLimit(sess, ip, sessionId)
    IN  IF ~requestCheck.allowed
        THEN [requests |-> requestCheck.requests, tokens |-> toks, sessions |-> sess,
              rejected |-> TRUE,
              response |-> createRateLimitResponse(
                  [allowed |-> FALSE, resetTime |-> requestCheck.resetTime,
                   remaining |-> requestCheck.remaining, limit |-> RequestLimit,
                   type |-> "requests"], t)]
        ELSE IF ~tokenCheck.allowed
        THEN [requests |-> requestCheck.requests, tokens |-> tokenCheck.tokens,
              sessions |-> sess,
              rejected |-> TRUE,
              response |-> createRateLimitResponse(
                  [allowed |-> FALSE, resetTime |-> tokenCheck.resetTime,
                   remaining |-> tokenCheck.remaining, limit |-> TokenLimit,
                   type |-> "tokens"], t)]
        ELSE [requests |-> requestCheck.requests, tokens |-> tokenCheck.tokens,
              sessions |-> sessionCheck.sessions,
              rejected |-> FALSE,
              response |-> NoOut]

\* checkLimits that runs the three store checks before it looks at any result
checkLimits_ChecksAllFirst(reqs, toks, sess, ip, sessionId, len, t) ==
    LET estimatedTokens == estimateTokens(len)
        requestCheck == checkRequestLimit(reqs, ip, t)
        tokenCheck == checkTokenLimit(toks, ip, estimatedTokens, t)
        sessionCheck == checkSessionLimit(sess, ip, sessionId)
    IN  IF ~requestCheck.allowed
        THEN [requests |-> requestCheck.requests, tokens |-> tokenCheck.tokens,
              sessions |-> sessionCheck.sessions,
              rejected |-> TRUE,
              response |-> createRateLimitResponse(
                  [allowed |-> FALSE, resetTime |-> requestCheck.resetTime,
                   remaining |-> requestCheck.remaining, limit |-> RequestLimit,
                   type |-> "requests"], t)]
        ELSE IF ~tokenCheck.allowed
        THEN [requests |-> requestCheck.requests, tokens |-> tokenCheck.tokens,
              sessions |-> sessionCheck.sessions,
              rejected |-> TRUE,
              response |-> createRateLimitResponse(
                  [allowed |-> FALSE, resetTime |-> tokenCheck.resetTime,
                   remaining |-> tokenCheck.remaining, limit |-> TokenLimit,
                   type |-> "tokens"], t)]
        ELSE IF ~sessionCheck.allowed
        THEN [requests |-> requestCheck.requests, tokens |-> tokenCheck.tokens,
              sessions |-> sessionCheck.sessions,
              rejected |-> TRUE,
              response |-> createRateLimitResponse(
                  [allowed |-> FALSE, resetTime |-> t + 60000,
                   remaining |-> sessionCheck.remaining, limit |-> SessionLimit,
                   type |-> "sessions"], t)]
        ELSE [requests |-> requestCheck.requests, tokens |-> tokenCheck.tokens,
              sessions |-> sessionCheck.sessions,
              rejected |-> FALSE,
              response |-> NoOut]

\* checkLimits whose session rejection reports Date.now() as its resetTime
checkLimits_SessionResetNow(reqs, toks, sess, ip, sessionId, len, t) ==
    LET estimatedTokens == estimateTokens(len)
        requestCheck == checkRequestLimit(reqs, ip, t)
        tokenCheck == checkTokenLimit(toks, ip, estimatedTokens, t)
        sessionCheck == checkSessionLimit(sess, ip, sessionId)
    IN  IF ~requestCheck.allowed
        THEN [requests |-> requestCheck.requests, tokens |-> toks, sessions |-> sess,
              rejected |-> TRUE,
              response |-> createRateLimitResponse(
                  [allowed |-> FALSE, resetTime |-> requestCheck.resetTime,
                   remaining |-> requestCheck.remaining, limit |-> RequestLimit,
                   type |-> "requests"], t)]
        ELSE IF ~tokenCheck.allowed
        THEN [requests |-> requestCheck.requests, tokens |-> tokenCheck.tokens,
              sessions |-> sess,
              rejected |-> TRUE,
              response |-> createRateLimitResponse(
                  [allowed |-> FALSE, resetTime |-> tokenCheck.resetTime,
                   remaining |-> tokenCheck.remaining, limit |-> TokenLimit,
                   type |-> "tokens"], t)]
        ELSE IF ~sessionCheck.allowed
        THEN [requests |-> requestCheck.requests, tokens |-> tokenCheck.tokens,
              sessions |-> sessionCheck.sessions,
              rejected |-> TRUE,
              response |-> createRateLimitResponse(
                  [allowed |-> FALSE, resetTime |-> t,
                   remaining |-> sessionCheck.remaining, limit |-> SessionLimit,
                   type |-> "sessions"], t)]
        ELSE [requests |-> requestCheck.requests, tokens |-> tokenCheck.tokens,
              sessions |-> sessionCheck.sessions,
              rejected |-> FALSE,
              response |-> NoOut]

\* checkLimits(request, messageText): the maps after the call and the 429
\* response, or rejected = FALSE where the code returns null
checkLimits(reqs, toks, sess, ip, sessionId, len, t) ==
    LET estimatedTokens == estimateTokens(len)
        requestCheck == checkRequestLimit(reqs, ip, t)
        tokenCheck == checkTokenLimit(toks, ip, estimatedTokens, t)
        sessionCheck == checkSessionLimit(sess, ip, sessionId)
    IN  IF ~requestCheck.allowed
        THEN [requests |-> requestCheck.requests, tokens |-> toks, sessions |-> sess,
              rejected |-> TRUE,
              response |-> createRateLimitResponse(
                  [allowed |-> FALSE, resetTime |-> requestCheck.resetTime,
                   remaining |-> requestCheck.remaining, limit |-> RequestLimit,
                   type |-> "requests"], t)]
        ELSE IF ~tokenCheck.allowed
        THEN [requests |-> requestCheck.requests, tokens |-> tokenCheck.tokens,
              sessions |-> sess,
              rejected |-> TRUE,
              response |-> createRateLimitResponse(
                  [allowed |-> FALSE, resetTime |-> tokenCheck.resetTime,
                   remaining |-> tokenCheck.remaining, limit |-> TokenLimit,
                   type |-> "tokens"], t)]
        ELSE IF ~sessionCheck.allowed
        THEN [requests |-> requestCheck.requests, tokens |-> tokenCheck.tokens,
              sessions |-> sessionCheck.sessions,
              rejected |-> TRUE,
              response |-> createRateLimitResponse(
                  [allowed |-> FALSE, resetTime |-> t + 60000,
                   remaining |-> sessionCheck.remaining, limit |-> SessionLimit,
                   type |-> "sessions"], t)]
        ELSE [requests |-> requestCheck.requests, tokens |-> tokenCheck.tokens,
              sessions |-> sessionCheck.sessions,
              rejected |-> FALSE,
              response |-> NoOut]

\* addRateLimitHeaders(response, request, messageText): the maps after the
\* call and the 200 response with the headers it sets
addRateLimitHeaders(reqs, toks, ip, len, t) ==
    LET requestCheck == checkRequestLimit(reqs, ip, t)
        tokenCheck == IF len > 0
                      THEN checkTokenLimit(toks, ip, 0, t)
                      ELSE [tokens |-> toks, remaining |-> TokenLimit,
                            resetTime |-> t + TokenWindowMs]
    IN  [requests |-> requestCheck.requests,
         tokens |-> tokenCheck.tokens,
         response |-> [NoOut EXCEPT !.status = 200,
                                    !.requestsRemaining = requestCheck.remaining,
                                    !.requestsReset = requestCheck.resetTime,
                                    !.tokensRemaining = tokenCheck.remaining,
                                    !.tokensReset = tokenCheck.resetTime]]

\* ------------------------------------------------------------------------
\* Initial state: the store as the constructor leaves it
\* ------------------------------------------------------------------------
Init ==
    /\ now = 0
    /\ clockTicks = 0
    /\ requests = EmptyMap
    /\ tokens = EmptyMap
    /\ sessions = EmptyMap
    /\ ret = NoRet
    /\ refWin = [k \in Keys |-> [n |-> 0, adm |-> 0, end |-> 0]]
    /\ sent = 0
    /\ inflight = EmptyBag
    /\ out = NoOut
    /\ admittedSids = [k \in Keys |-> {}]
    /\ lazyResets = {}
    /\ sessTrail = [k \in Keys |-> 0]
    /\ unswept = NoSweepRun
    /\ cleanupIntervals = {"requestCleanup", "tokenCleanup"}
    /\ activeTimers = {"requestCleanup", "tokenCleanup"}
    /\ retry = NoRetry

\* ------------------------------------------------------------------------
\* Store operations called directly
\* ------------------------------------------------------------------------
CheckRequestLimit(ip) ==
    /\ RefRoom(ip)
    /\ LET r == checkRequestLimit(requests, ip, now)
       IN  /\ requests' = r.requests
           /\ ret' = [NoRet EXCEPT !.op = "checkRequestLimit", !.key = ip,
                                   !.cameBack = CameBack(retry, "requests", ip, now),
                                   !.allowed = r.allowed, !.remaining = r.remaining,
                                   !.resetTime = r.resetTime]
    /\ refWin' = RefCall(refWin, ip, now)
    /\ lazyResets' = lazyResets \cup Replaced("requests", requests, requests', ip, now)
    /\ unswept' = UnsweptRequest(unswept, requests, ip, now)
    /\ retry' = RetryAfterCheck(retry, "requests", ip, ret'.allowed, ret'.resetTime)
    /\ UNCHANGED <<now, clockTicks, tokens, sessions, routeVars, sessTrail, timerVars>>

CheckTokenLimit(ip, est) ==
    /\ LET r == checkTokenLimit(tokens, ip, est, now)
       IN  /\ tokens' = r.tokens
           /\ ret' = [NoRet EXCEPT !.op = "checkTokenLimit", !.key = ip, !.est = est,
                                   !.cameBack = CameBack(retry, "tokens", ip, now),
                                   !.allowed = r.allowed, !.remaining = r.remaining,
                                   !.resetTime = r.resetTime]
    /\ lazyResets' = lazyResets \cup Replaced("tokens", tokens, tokens', ip, now)
    /\ unswept' = UnsweptToken(unswept, tokens, ip, est, now)
    /\ retry' = RetryAfterCheck(retry, "tokens", ip, ret'.allowed, ret'.resetTime)
    /\ UNCHANGED <<now, clockTicks, requests, sessions, refWin, routeVars, sessTrail, timerVars>>

CheckSessionLimit(ip, sid) ==
    /\ LET r == checkSessionLimit(sessions, ip, sid)
       IN  /\ sessions' = r.sessions
           /\ ret' = [NoRet EXCEPT !.op = "checkSessionLimit", !.key = ip, !.sid = sid,
                                   !.held = sid \in HeldIds(sessions, ip),
                                   !.allowed = r.allowed, !.remaining = r.remaining]
           /\ sessTrail' = TrailCheck(sessTrail, ip, sid \in HeldIds(sessions, ip), r.allowed)
    /\ UNCHANGED <<now, clockTicks, requests, tokens, refWin, routeVars, lazyResets, unswept, timerVars, retry>>

RemoveSession(ip, sid) ==
    /\ sessions' = removeSession(sessions, ip, sid)
    /\ ret' = [NoRet EXCEPT !.op = "removeSession", !.key = ip, !.sid = sid,
                            !.held = sid \in HeldIds(sessions, ip)]
    /\ sessTrail' = TrailRemove(sessTrail, ip, sid \in HeldIds(sessions, ip))
    /\ UNCHANGED <<now, clockTicks, requests, tokens, refWin, routeVars, lazyResets, unswept, timerVars, retry>>

\* the setInterval callbacks of startCleanupTasks
SweepRequests ==
    /\ "requestCleanup" \in activeTimers
    /\ now >= RequestCleanupMs
    /\ requests' = cleanExpiredEntries(requests, now)
    /\ ret' = NoRet
    /\ out' = NoOut
    /\ UNCHANGED <<now, clockTicks, tokens, sessions, refWin, pendingVars, lazyResets, unswept, sessTrail, timerVars, retry>>

SweepTokens ==
    /\ "tokenCleanup" \in activeTimers
    /\ now >= TokenCleanupMs
    /\ tokens' = cleanExpiredEntries(tokens, now)
    /\ ret' = NoRet
    /\ out' = NoOut
    /\ UNCHANGED <<now, clockTicks, requests, sessions, refWin, pendingVars, lazyResets, unswept, sessTrail, timerVars, retry>>

\* cleanup() that empties the array of handles and clears no timer
Cleanup_ForgetsToClear ==
    /\ cleanupIntervals' = {}
    /\ UNCHANGED activeTimers
    /\ ret' = [NoRet EXCEPT !.op = "cleanup", !.held = cleanupIntervals # {}]
    /\ out' = NoOut
    /\ UNCHANGED <<now, clockTicks, requests, tokens, sessions, refWin, pendingVars,
                   lazyResets, unswept, sessTrail, retry>>

\* cleanup(): clearInterval on every handle held, then the array is emptied
Cleanup ==
    /\ activeTimers' = activeTimers \ cleanupIntervals
    /\ cleanupIntervals' = {}
    /\ ret' = [NoRet EXCEPT !.op = "cleanup", !.held = cleanupIntervals # {}]
    /\ out' = NoOut
    /\ UNCHANGED <<now, clockTicks, requests, tokens, sessions, refWin, pendingVars,
                   lazyResets, unswept, sessTrail, retry>>

\* the passage of time
Advance(d) ==
    /\ clockTicks < MaxAdvances
    /\ now' = now + d
    /\ clockTicks' = clockTicks + 1
    /\ ret' = NoRet
    /\ out' = NoOut
    /\ UNCHANGED <<requests, tokens, sessions, refWin, pendingVars, lazyResets, unswept, sessTrail, timerVars, retry>>

Tick == \E d \in ClockSteps : Advance(d)

\* ------------------------------------------------------------------------
\* The chat route, POST.  The handler runs without yielding up to the end
\* of checkLimits (request.json() and the validation touch no shared state),
\* yields while the documents load and the conversation runs, and runs
\* addRateLimitHeaders without yielding when the conversation has returned.
\* ------------------------------------------------------------------------
\* the body has no messages: 400 before the limiter is consulted
PostInvalid(ip) ==
    /\ sent' = sent + 1
    /\ out' = [NoOut EXCEPT !.ip = ip, !.status = 400]
    /\ ret' = NoRet
    /\ UNCHANGED <<now, clockTicks, requests, tokens, sessions, refWin,
                   inflight, admittedSids, lazyResets, unswept, sessTrail, timerVars, retry>>

\* POST without the return of the 429 response: a rejected request goes on
\* to the documents and the conversation as well
PostCheck_FallsThrough(ip, hdr, len) ==
    LET sessionId == getSessionId(hdr, sessions, ip)
        c == checkLimits(requests, tokens, sessions, ip, sessionId, len, now)
        ref == RefCall(refWin, ip, now)
    IN  /\ sent' = sent + 1
        /\ requests' = c.requests
        /\ tokens' = c.tokens
        /\ sessions' = c.sessions
        /\ ret' = NoRet
        /\ inflight' = inflight (+) SetToBag({[ip |-> ip, len |-> len]})
        /\ IF c.rejected
           THEN /\ out' = [c.response EXCEPT !.ip = ip]
                /\ refWin' = ref
                /\ UNCHANGED admittedSids
           ELSE /\ refWin' = [ref EXCEPT ![ip].adm = @ + 1]
                /\ admittedSids' = [admittedSids EXCEPT ![ip] = @ \cup {sessionId}]
                /\ out' = NoOut
        /\ UNCHANGED <<now, clockTicks, lazyResets, unswept, sessTrail, timerVars, retry>>

\* checkLimits: the 429 response, or the request goes on to the handler
PostCheck(ip, hdr, len) ==
    LET sessionId == getSessionId(hdr, sessions, ip)
        c == checkLimits(requests, tokens, sessions, ip, sessionId, len, now)
        ref == RefCall(refWin, ip, now)
    IN  /\ sent' = sent + 1
        /\ requests' = c.requests
        /\ tokens' = c.tokens
        /\ sessions' = c.sessions
        /\ ret' = NoRet
        /\ IF c.rejected
           THEN /\ out' = [c.response EXCEPT !.ip = ip]
                /\ refWin' = ref
                /\ UNCHANGED <<inflight, admittedSids>>
           ELSE /\ inflight' = inflight (+) SetToBag({[ip |-> ip, len |-> len]})
                /\ refWin' = [ref EXCEPT ![ip].adm = @ + 1]
                /\ admittedSids' = [admittedSids EXCEPT ![ip] = @ \cup {sessionId}]
                /\ out' = NoOut
        /\ UNCHANGED <<now, clockTicks, lazyResets, unswept, sessTrail, timerVars, retry>>

\* the conversation has returned: addRateLimitHeaders, response 200
PostRespond(q) ==
    LET h == addRateLimitHeaders(requests, tokens, q.ip, q.len, now)
    IN  /\ BagIn(q, inflight)
        /\ inflight' = inflight (-) SetToBag({q})
        /\ requests' = h.requests
        /\ tokens' = h.tokens
        /\ out' = [h.response EXCEPT !.ip = q.ip]
        /\ ret' = NoRet
        /\ refWin' = RefCall(refWin, q.ip, now)
        /\ UNCHANGED <<now, clockTicks, sessions, sent, admittedSids, lazyResets, unswept, sessTrail, timerVars, retry>>

\* loading a document or the conversation throws: the catch block, 500
PostFail(q) ==
    /\ BagIn(q, inflight)
    /\ inflight' = inflight (-) SetToBag({q})
    /\ out' = [NoOut EXCEPT !.ip = q.ip, !.status = 500]
    /\ ret' = NoRet
    /\ UNCHANGED <<now, clockTicks, requests, tokens, sessions, refWin,
                   sent, admittedSids, lazyResets, unswept, sessTrail, timerVars, retry>>

\* ------------------------------------------------------------------------
\* Specifications
\* ------------------------------------------------------------------------
\* the request dimension of the store
NextReq ==
    \/ \E ip \in Keys : CheckRequestLimit(ip)
    \/ SweepRequests
    \/ \E d \in ReqClockSteps : Advance(d)

SpecReq == Init /\ [][NextReq]_vars

\* the token dimension of the store
NextTok ==
    \/ \E ip \in Keys, est \in TokenEstimates : CheckTokenLimit(ip, est)
    \/ SweepTokens
    \/ Tick

SpecTok == Init /\ [][NextTok]_vars

\* the session dimension of the store
NextSess ==
    \/ \E ip \in Keys, sid \in SessionIds : CheckSessionLimit(ip, sid)
    \/ \E ip \in Keys, sid \in SessionIds : RemoveSession(ip, sid)

SpecSess == Init /\ [][NextSess]_vars

\* all the operations of the store, on every key, at one clock reading
NextStore ==
    \/ \E ip \in Keys : refWin[ip].n < MaxStoreCalls /\ CheckRequestLimit(ip)
    \/ \E ip \in Keys, est \in StoreEstimates : CheckTokenLimit(ip, est)
    \/ \E ip \in Keys, sid \in StoreSids : CheckSessionLimit(ip, sid)
    \/ \E ip \in Keys, sid \in StoreSids : RemoveSession(ip, sid)

SpecStore == Init /\ [][NextStore]_vars

\* the two window dimensions of the store together, for one client
FocusKey == "A"

Next ==
    \/ CheckRequestLimit(FocusKey)
    \/ \E est \in TokenEstimates : CheckTokenLimit(FocusKey, est)
    \/ SweepRequests
    \/ SweepTokens
    \/ Tick

Spec == Init /\ [][Next]_vars

\* the three checks of the store for one client, with every estimate and
\* every session id, at one clock reading
NextResult ==
    \/ CheckRequestLimit(FocusKey)
    \/ \E est \in TokenEstimates : CheckTokenLimit(FocusKey, est)
    \/ \E sid \in SessionIds : CheckSessionLimit(FocusKey, sid)

SpecResult == Init /\ [][NextResult]_vars

\* the life of the store from its construction to after its shutdown
NextLife ==
    \/ refWin[FocusKey].n < MaxStoreCalls /\ CheckRequestLimit(FocusKey)
    \/ \E est \in StoreEstimates : CheckTokenLimit(FocusKey, est)
    \/ SweepRequests
    \/ SweepTokens
    \/ Cleanup
    \/ Tick

SpecLife == Init /\ [][NextLife]_vars

\* a client that uses the store for a while and then stops for good, while
\* the days pass and the sweep timers keep firing
NextIdle ==
    \/ clockTicks = 0 /\ CheckRequestLimit(FocusKey)
    \/ \E est \in StoreEstimates : clockTicks = 0 /\ CheckTokenLimit(FocusKey, est)
    \/ \E sid \in StoreSids : clockTicks = 0 /\ CheckSessionLimit(FocusKey, sid)
    \/ SweepRequests
    \/ SweepTokens
    \/ Advance(TokenWindowMs)

SpecIdle ==
    /\ Init
    /\ [][NextIdle]_vars
    /\ WF_vars(SweepRequests)
    /\ WF_vars(SweepTokens)
    /\ WF_vars(Advance(TokenWindowMs))

\* the chat route serving concurrent requests
NextRoute ==
    \/ sent < MaxSent /\ PostInvalid(FocusKey)
    \/ \E hdr \in HeaderIds \cup {NoHeader}, len \in RouteLens :
          /\ sent < MaxSent
          /\ BagCardinality(inflight) < MaxInflight
          /\ PostCheck(FocusKey, hdr, len)
    \/ \E q \in BagToSet(inflight) : PostRespond(q)
    \/ \E q \in BagToSet(inflight) : PostFail(q)
    \/ SweepRequests
    \/ SweepTokens
    \/ \E d \in RouteClockSteps : clockTicks < MaxRouteAdvances /\ Advance(d)

SpecRoute == Init /\ [][NextRoute]_vars

\* the chat route serving one client that sends no session header and
\* waits for each response before it sends the next request
NextSeq ==
    \/ \E len \in SeqLens :
          /\ sent < MaxSeq
          /\ inflight = EmptyBag
          /\ PostCheck(FocusKey, NoHeader, len)
    \/ \E q \in BagToSet(inflight) : PostRespond(q)
    \/ \E q \in BagToSet(inflight) : PostFail(q)
    \/ clockTicks < MaxRouteAdvances /\ Tick

SpecSeq == Init /\ [][NextSeq]_vars

\* the same client when it keeps sending, every conversation comes to an
\* end and time keeps passing
SpecSeqLive == Init /\ [][NextSeq]_vars /\ WF_vars(NextSeq)

\* ------------------------------------------------------------------------
\* Properties
\* ------------------------------------------------------------------------
\* dailyUsage recorded for ip, 0 when the key has no entry
Consumed(toks, ip) == IF MapHas(toks, ip) THEN toks[ip].dailyUsage ELSE 0

\* C1: for every key, the request count stored for the key's active window
\* (now < resetTime) never exceeds the request limit.
C1_RequestCountWithinLimit ==
    \A k \in DOMAIN requests :
        now < requests[k].resetTime => requests[k].count <= RequestLimit

\* a key whose window is full has been called again inside the window
C1_Witness ==
    \E k \in DOMAIN requests :
        /\ now < requests[k].resetTime
        /\ requests[k].count = RequestLimit
        /\ refWin[k].n > RequestLimit
        /\ clockTicks > 0

\* C2: concurrent requests of one key never share a slot: the requests
\* admitted in a window of the key are at most the count recorded for the
\* window, hence at most the request limit, and the distinct session ids
\* admitted for the key are at most the session cap.
C2_AtomicAdmission ==
    \A k \in Keys :
        /\ refWin[k].adm <= RequestLimit
        /\ (MapHas(requests, k) /\ now < requests[k].resetTime)
               => (refWin[k].adm <= requests[k].count /\ requests[k].count <= RequestLimit)
        /\ Cardinality(admittedSids[k]) <= SessionLimit
        /\ MapHas(sessions, k) => Cardinality(sessions[k].sessionIds) <= SessionLimit

\* a request was rejected at the session cap while admitted requests of the
\* same key were still in flight
C2_Witness ==
    /\ out.status = 429
    /\ out.type = "sessions"
    /\ BagCardinality(inflight) >= 2
    /\ Cardinality(admittedSids[out.ip]) = SessionLimit

\* C3: a checkTokenLimit call that returns allowed = false leaves the
\* dailyUsage of the key as it was before the call.
C3_RejectedLeavesConsumed ==
    [][(ret'.op = "checkTokenLimit" /\ ~ret'.allowed)
           => Consumed(tokens', ret'.key) = Consumed(tokens, ret'.key)]_vars

\* C4: for every key, the dailyUsage stored for the key's active window
\* never exceeds the daily token limit.
C4_ConsumedWithinLimit ==
    \A k \in DOMAIN tokens :
        now < tokens[k].resetTime => tokens[k].dailyUsage <= TokenLimit

\* C5: for every key, the number of session ids held for the key, and the
\* activeCount recorded with them, never exceeds the session cap.
C5_SessionsWithinCap ==
    \A k \in DOMAIN sessions :
        /\ Cardinality(sessions[k].sessionIds) <= SessionLimit
        /\ sessions[k].activeCount <= SessionLimit

\* a new id was rejected for a key that holds cap-many ids
C5_Witness ==
    /\ ret.op = "checkSessionLimit"
    /\ ~ret.allowed
    /\ MapHas(sessions, ret.key)
    /\ Cardinality(sessions[ret.key].sessionIds) = SessionLimit
    /\ ret.sid \notin sessions[ret.key].sessionIds

\* the step in which the route returns the 200 response of a request
HeadersStep == BagCardinality(inflight') < BagCardinality(inflight) /\ out'.status = 200

\* C6: addRateLimitHeaders after a successful admission leaves the request
\* entry, the token entry and the session set of the key as the admitting
\* checkLimits call left them, and reports Requests-Remaining as the limit
\* minus the count that call recorded.  (The client is sequential: nothing
\* touches the store between the admission and the headers.)
C6_HeadersReadOnly ==
    [][HeadersStep =>
           /\ requests' = requests
           /\ tokens' = tokens
           /\ sessions' = sessions
           /\ out'.requestsRemaining = RequestLimit - requests[out'.ip].count]_vars

\* C7: a client that sends sequential requests without a session header
\* inside one request window gets no 429 for its first RequestLimit
\* requests, and request RequestLimit + 1 gets 429 with type requests.
C7_FirstRejectionAtEleventh ==
    now < RequestWindowMs =>
        /\ sent <= RequestLimit => out.status # 429
        /\ (sent = RequestLimit + 1 /\ inflight = EmptyBag)
               => (out.status = 429 /\ out.type = "requests")

\* C8: the k-th call of checkRequestLimit in a window of a key is allowed
\* with remaining = limit - k for k <= limit, and rejected with remaining 0
\* for every later k.
C8_FixedWindowCounter ==
    ret.op = "checkRequestLimit" =>
        LET k == refWin[ret.key].n
        IN  IF k <= RequestLimit
            THEN ret.allowed /\ ret.remaining = RequestLimit - k
            ELSE ~ret.allowed /\ ret.remaining = 0

\* the call after the limit-th of a window, in a window that followed an
\* elapsed one
C8_Witness ==
    /\ ret.op = "checkRequestLimit"
    /\ ~ret.allowed
    /\ refWin[ret.key].n = RequestLimit + 1
    /\ "requests" \in lazyResets

\* C9: a check that runs at now >= the stored resetTime replaces the entry
\* by a window ending at now + windowMs with count 1 (requests, admitted
\* with remaining = limit - 1) or with dailyUsage equal to the estimate of
\* the call (tokens).
C9_LazyWindowReset ==
    [][/\ (ret'.op = "checkRequestLimit" /\ Stale(requests, ret'.key, now))
              => /\ requests'[ret'.key] = [count |-> 1, resetTime |-> now + RequestWindowMs]
                 /\ ret'.allowed
                 /\ ret'.remaining = RequestLimit - 1
                 /\ ret'.resetTime = now + RequestWindowMs
       /\ (ret'.op = "checkTokenLimit" /\ Stale(tokens, ret'.key, now))
              => /\ tokens'[ret'.key] = [dailyUsage |-> ret'.est,
                                          resetTime |-> now + TokenWindowMs]
                 /\ ret'.resetTime = now + TokenWindowMs]_vars

\* both dimensions have replaced an elapsed window, and a token check with a
\* non-zero estimate has just opened a fresh window after the first day
C9_Witness ==
    /\ lazyResets = {"requests", "tokens"}
    /\ ret.op = "checkTokenLimit"
    /\ ret.est > 0
    /\ ret.resetTime = now + TokenWindowMs
    /\ now >= TokenWindowMs

\* C10: inside an active window checkTokenLimit(key, units) is admitted iff
\* consumed + units <= limit; admitted, consumed becomes consumed + units
\* and remaining is limit - (consumed + units); rejected, consumed is
\* unchanged and remaining is limit - consumed.
C10_ReserveWithinWindow ==
    [][(ret'.op = "checkTokenLimit" /\ MapHas(tokens, ret'.key)
            /\ now < tokens[ret'.key].resetTime)
           => LET consumed == tokens[ret'.key].dailyUsage
                  units == ret'.est
              IN  /\ ret'.allowed <=> (consumed + units <= TokenLimit)
                  /\ ret'.allowed =>
                         /\ tokens'[ret'.key].dailyUsage = consumed + units
                         /\ ret'.remaining = TokenLimit - (consumed + units)
                  /\ ~ret'.allowed =>
                         /\ tokens'[ret'.key].dailyUsage = consumed
                         /\ ret'.remaining = TokenLimit - consumed]_vars

\* C11: a request that checkLimits rejects, whichever dimension rejects it,
\* leaves the dailyUsage of its key as it was before the call.
C11_RejectionLeavesBudget ==
    [][out'.status = 429
           => Consumed(tokens', out'.ip) = Consumed(tokens, out'.ip)]_vars

\* C12: a rejection by the request check leaves the token entry and the
\* session set as they were, and a rejection by the token check leaves the
\* session set as it was.
C12_ShortCircuit ==
    [][/\ (out'.status = 429 /\ out'.type = "requests")
              => (tokens' = tokens /\ sessions' = sessions)
       /\ (out'.status = 429 /\ out'.type = "tokens")
              => sessions' = sessions]_vars

\* the request check rejected a request of a key that had budget left and
\* room for a further session
C12_Witness ==
    /\ out.status = 429
    /\ out.type = "requests"
    /\ Consumed(tokens, out.ip) < TokenLimit
    /\ MapHas(sessions, out.ip)
    /\ Cardinality(sessions[out.ip].sessionIds) < SessionLimit

\* C13: checkLimits evaluates burst, request-rate, usage-budget, session in
\* this order and admits a request only if the burst check passes, the burst
\* window being a fixed window of BurstWindowMs with the limit BurstLimit:
\* inside one burst window of a key at most BurstLimit requests of the key
\* are admitted.  (The first request of a key arrives at time 0, so the
\* key's first burst window is open while now < BurstWindowMs.)
C13_BurstCheckedFirst ==
    \A k \in Keys : now < BurstWindowMs => refWin[k].adm <= BurstLimit

\* C14: for a key on the exemption list checkSessionLimit never rejects,
\* however many distinct session ids the key has opened.
C14_ExemptKeyNeverOverCap ==
    (ret.op = "checkSessionLimit" /\ ret.key \in ExemptKeys) => ret.allowed

\* C15: checkSessionLimit with an id the key already holds is allowed, also
\* when the key holds cap-many ids, and leaves the session map as it was.
C15_HeldIdIdempotent ==
    [][(ret'.op = "checkSessionLimit" /\ ret'.sid \in HeldIds(sessions, ret'.key))
           => (ret'.allowed /\ sessions' = sessions)]_vars

\* an id the key already held was checked again while the key was at the cap
C15_Witness ==
    /\ ret.op = "checkSessionLimit"
    /\ ret.held
    /\ ret.allowed
    /\ Cardinality(HeldIds(sessions, ret.key)) = SessionLimit

\* C16: a new id is rejected while the key holds cap-many ids and the set
\* stays as it was; removeSession of a held id leaves the other ids; a new
\* id checked while the key holds cap - 1 ids is admitted and the set is
\* the ids held before plus the new id, cap-many again.
C16_ReleaseMakesRoom ==
    [][LET ids == HeldIds(sessions, ret'.key)
           ids2 == HeldIds(sessions', ret'.key)
       IN  /\ (ret'.op = "checkSessionLimit" /\ ret'.sid \notin ids
                   /\ Cardinality(ids) = SessionLimit)
                  => (~ret'.allowed /\ ids2 = ids)
           /\ (ret'.op = "removeSession" /\ ret'.sid \in ids)
                  => ids2 = ids \ {ret'.sid}
           /\ (ret'.op = "checkSessionLimit" /\ ret'.sid \notin ids
                   /\ Cardinality(ids) = SessionLimit - 1)
                  => /\ ret'.allowed
                     /\ ids2 = ids \cup {ret'.sid}
                     /\ sessions'[ret'.key].activeCount = SessionLimit]_vars

\* a key at the cap had a new id rejected, released one held id and then had
\* a new id admitted
C16_Witness ==
    /\ ret.op = "checkSessionLimit"
    /\ ret.allowed
    /\ ~ret.held
    /\ sessTrail[ret.key] = 3
    /\ Cardinality(HeldIds(sessions, ret.key)) = SessionLimit

\* C17: removeSession(key, sessionId) takes sessionId out of the key's set
\* and nothing else: the other ids of the key, the sessions of the other
\* keys, the request map and the token map stay as they were, and when the
\* key is unknown or does not hold the id no state changes at all.
C17_RemoveSessionFrame ==
    [][ret'.op = "removeSession"
           => /\ HeldIds(sessions', ret'.key) = HeldIds(sessions, ret'.key) \ {ret'.sid}
              /\ \A k \in Keys \ {ret'.key} :
                     /\ MapHas(sessions', k) <=> MapHas(sessions, k)
                     /\ MapHas(sessions, k) => sessions'[k] = sessions[k]
              /\ requests' = requests
              /\ tokens' = tokens
              /\ ret'.sid \notin HeldIds(sessions, ret'.key) => sessions' = sessions]_vars

\* one of two held ids of a key was removed while the other key held
\* sessions and both window maps had entries for the key
C17_Witness ==
    /\ ret.op = "removeSession"
    /\ ret.held
    /\ HeldIds(sessions, ret.key) # {}
    /\ \E k \in Keys \ {ret.key} : MapHas(sessions, k)
    /\ MapHas(requests, ret.key)
    /\ MapHas(tokens, ret.key)

\* C18: every direct check returns the allowed, remaining and resetTime it
\* returns in the same run without the sweeps.
C18_SweepTransparent ==
    ret.op \in {"checkRequestLimit", "checkTokenLimit"}
        => /\ ret.allowed = unswept.allowed
           /\ ret.remaining = unswept.remaining
           /\ ret.resetTime = unswept.resetTime

\* a token check with a non-zero estimate found its entry deleted by a sweep
\* where the run without sweeps still holds the elapsed entry
C18_Witness ==
    /\ ret.op = "checkTokenLimit"
    /\ ret.est > 0
    /\ unswept.overSwept
    /\ "requests" \in lazyResets

\* C19: a request that checkLimits rejects gets the 429 response and never
\* reaches the loading of the documents and the conversation; a request
\* reaches them only in a step that returns no rejection.
C19_WorkOnlyAfterAdmission ==
    [][/\ out'.status = 429 => inflight' = inflight
       /\ BagCardinality(inflight') > BagCardinality(inflight)
              => (out' = NoOut /\ sent' = sent + 1)]_vars

\* a request was rejected before any request of its key was ever admitted,
\* and no conversation is running
C19_Witness ==
    /\ out.status = 429
    /\ out.type = "tokens"
    /\ inflight = EmptyBag
    /\ admittedSids[out.ip] = {}
    /\ sent = 1

\* C20: a response carries Retry-After exactly when it is a rejection, and
\* the value is the least integer number of seconds that reaches from now to
\* the resetTime of the dimension that rejected (for the session dimension,
\* which has no window, the resetTime the response reports).
C20_RetryAfter ==
    /\ out.status # 429 => out.retryAfter = "absent"
    /\ out.status = 429 =>
           /\ out.retryAfter \in Int
           /\ out.retryAfter * 1000 >= out.resetTime - now
           /\ (out.retryAfter - 1) * 1000 < out.resetTime - now
           /\ out.type = "requests" => out.resetTime = requests[out.ip].resetTime
           /\ out.type = "tokens" => out.resetTime = tokens[out.ip].resetTime

\* a rejection whose window ends a fraction of a second after a whole number
\* of seconds from now
C20_Witness ==
    /\ out.status = 429
    /\ out.type = "requests"
    /\ (out.resetTime - now) % 1000 # 0

\* C21: a checkRequestLimit call inside an active window of the key leaves
\* the resetTime of the entry as it was; when the call is rejected the whole
\* entry stays as it was, with the count at the limit.
C21_WindowNeverLengthened ==
    [][(ret'.op = "checkRequestLimit" /\ MapHas(requests, ret'.key)
            /\ now < requests[ret'.key].resetTime)
           => /\ requests'[ret'.key].resetTime = requests[ret'.key].resetTime
              /\ ret'.resetTime = requests[ret'.key].resetTime
              /\ ~ret'.allowed
                     => /\ requests'[ret'.key] = requests[ret'.key]
                        /\ requests[ret'.key].count = RequestLimit]_vars

\* the second rejection in a window, some time after the window began
C21_Witness ==
    /\ ret.op = "checkRequestLimit"
    /\ ~ret.allowed
    /\ refWin[ret.key].n = RequestLimit + 2
    /\ now < ret.resetTime
    /\ now + RequestWindowMs > ret.resetTime

\* C22: a sweep deletes an entry only if its window has been expired for
\* longer than the grace period, stated here for the least grace period, 0:
\* an entry leaves a window map only when now > resetTime, and the entries
\* that stay in the map stay as they were unless a check wrote them.
C22_SweepAfterGrace ==
    [][/\ \A k \in (DOMAIN requests) \ (DOMAIN requests') : now > requests[k].resetTime
       /\ \A k \in (DOMAIN tokens) \ (DOMAIN tokens') : now > tokens[k].resetTime
       /\ ret'.op = "none"
              => /\ \A k \in DOMAIN requests' : requests'[k] = requests[k]
                 /\ \A k \in DOMAIN tokens' : tokens'[k] = tokens[k]]_vars

\* C24: the store holds the handles of exactly the timers that are running
\* (both from the construction on); once cleanup() has emptied the handles
\* they stay empty, no sweep deletes an entry any more, and a further
\* cleanup() changes nothing.
C24_TimersScoped ==
    [][/\ activeTimers = cleanupIntervals
       /\ cleanupIntervals = {}
              => /\ cleanupIntervals' = {}
                 /\ activeTimers' = {}
                 /\ DOMAIN requests \subseteq DOMAIN requests'
                 /\ DOMAIN tokens \subseteq DOMAIN tokens'
                 /\ ret'.op = "cleanup"
                        => (requests' = requests /\ tokens' = tokens /\ sessions' = sessions)]_vars

\* after cleanup() both maps hold an entry whose window elapsed at least a
\* sweep period ago, and cleanup() has just been called again
C24_Witness ==
    /\ cleanupIntervals = {}
    /\ ret.op = "cleanup"
    /\ ~ret.held
    /\ Stale(requests, FocusKey, now - RequestCleanupMs)
    /\ Stale(tokens, FocusKey, now - TokenCleanupMs)

\* C23: when a key has stopped issuing requests and the sweep timers keep
\* firing, the entries of the key are eventually deleted from every map of
\* the store (requests, tokens and sessions) and stay deleted.
C23_EveryEntryEvicted ==
    <>[](/\ ~MapHas(requests, FocusKey)
         /\ ~MapHas(tokens, FocusKey)
         /\ ~MapHas(sessions, FocusKey))

\* C25: every session slot taken for a key by an admitted request is
\* eventually released: an id the key holds is eventually no longer held.
C25_SessionSlotsFreed ==
    \A sid \in GeneratedIds :
        (sid \in HeldIds(sessions, FocusKey)) ~> (sid \notin HeldIds(sessions, FocusKey))

\* the part of a map that belongs to key k
OwnEntries(map, k) == [x \in (DOMAIN map) \cap {k} |-> map[x]]

\* C26: a store operation on a key leaves the entries of every other key in
\* every map as they were, and what it returns is what the same operation
\* returns on a store that holds the entries of its own key only.
C26_KeyIsolation ==
    [][ret'.op \in {"checkRequestLimit", "checkTokenLimit", "checkSessionLimit",
                    "removeSession"}
           => LET k == ret'.key
              IN  /\ \A b \in Keys \ {k} :
                         /\ OwnEntries(requests', b) = OwnEntries(requests, b)
                         /\ OwnEntries(tokens', b) = OwnEntries(tokens, b)
                         /\ OwnEntries(sessions', b) = OwnEntries(sessions, b)
                  /\ ret'.op = "checkRequestLimit"
                         => LET r == checkRequestLimit(OwnEntries(requests, k), k, now)
                            IN  /\ ret'.allowed = r.allowed
                                /\ ret'.remaining = r.remaining
                                /\ ret'.resetTime = r.resetTime
                  /\ ret'.op = "checkTokenLimit"
                         => LET r == checkTokenLimit(OwnEntries(tokens, k), k, ret'.est, now)
                            IN  /\ ret'.allowed = r.allowed
                                /\ ret'.remaining = r.remaining
                                /\ ret'.resetTime = r.resetTime
                  /\ ret'.op = "checkSessionLimit"
                         => LET r == checkSessionLimit(OwnEntries(sessions, k), k, ret'.sid)
                            IN  /\ ret'.allowed = r.allowed
                                /\ ret'.remaining = r.remaining]_vars

\* a key was admitted on its own budget while the other key, which has
\* entries in all three maps, had used so much that the two usages together
\* exceed the limit
C26_Witness ==
    /\ ret.op = "checkTokenLimit"
    /\ ret.allowed
    /\ \E b \in Keys \ {ret.key} :
           /\ Consumed(tokens, b) + Consumed(tokens, ret.key) > TokenLimit
           /\ MapHas(requests, b)
           /\ MapHas(sessions, b)

\* C27: when the last checkRequestLimit of a key was rejected with resetTime
\* r, a checkRequestLimit of the key at a time >= r is admitted; when the
\* last checkTokenLimit of a key was rejected with resetTime r, a
\* checkTokenLimit of the key at a time >= r with an estimate <= the limit
\* is admitted.
C27_RetryGuidanceSound ==
    [][/\ (ret'.op = "checkRequestLimit" /\ retry.requests[ret'.key] > 0
               /\ now >= retry.requests[ret'.key])
              => ret'.allowed
       /\ (ret'.op = "checkTokenLimit" /\ retry.tokens[ret'.key] > 0
               /\ now >= retry.tokens[ret'.key] /\ ret'.est <= TokenLimit)
              => ret'.allowed]_vars

\* a key whose token check was rejected has come back at or after the
\* resetTime of the rejection with a non-zero estimate and was admitted
C27_Witness ==
    /\ ret.op = "checkTokenLimit"
    /\ ret.cameBack
    /\ ret.allowed
    /\ ret.est > 0

\* C28: every 429 response of checkLimits, whatever its type, reports a
\* resetTime later than the time of the decision and a Retry-After of at
\* least one second.
C28_RetryAfterPositive ==
    out.status = 429 =>
        /\ out.type \in {"requests", "tokens", "sessions"}
        /\ out.resetTime > now
        /\ out.retryAfter >= 1

\* a session rejection after the clock has moved: one minute of Retry-After
C28_Witness ==
    /\ out.status = 429
    /\ out.type = "sessions"
    /\ now > 0
    /\ out.retryAfter = 60

\* C29: for every key with a session entry, activeCount equals the number
\* of ids in sessionIds and is at least 1; a key whose last id was removed
\* has no entry.
C29_SessionBookkeeping ==
    \A k \in DOMAIN sessions :
        /\ sessions[k].activeCount = Cardinality(sessions[k].sessionIds)
        /\ sessions[k].activeCount >= 1

\* the last held id of a key was removed and the key's entry is gone
C29_Witness ==
    /\ ret.op = "removeSession"
    /\ ret.held
    /\ ~MapHas(sessions, ret.key)

\* C30: every result of checkRequestLimit, of checkTokenLimit with an
\* estimate >= 0 and of checkSessionLimit reports a remaining value between
\* 0 and the configured limit of its dimension, whether the call was
\* admitted or rejected.
C30_RemainingInRange ==
    /\ ret.op = "checkRequestLimit"
           => (0 <= ret.remaining /\ ret.remaining <= RequestLimit)
    /\ (ret.op = "checkTokenLimit" /\ ret.est >= 0)
           => (0 <= ret.remaining /\ ret.remaining <= TokenLimit)
    /\ ret.op = "checkSessionLimit"
           => (0 <= ret.remaining /\ ret.remaining <= SessionLimit)

\* a token call was rejected while the stored usage of the key was above the
\* limit, the request count of the key was at its limit and the key held
\* cap-many sessions
C30_Witness ==
    /\ ret.op = "checkTokenLimit"
    /\ ~ret.allowed
    /\ MapHas(tokens, ret.key)
    /\ tokens[ret.key].dailyUsage > TokenLimit
    /\ ret.remaining = 0
    /\ MapHas(requests, ret.key)
    /\ requests[ret.key].count = RequestLimit
    /\ Cardinality(HeldIds(sessions, ret.key)) = SessionLimit

====
